---- MODULE Spec2Model ----
(***************************************************************************)
(* Model of bcbio/hla/bwakit.py: HLA typing with bwakit.                   *)
(*                                                                         *)
(* Strings are sequences of symbols.  Wherever the code splits, replaces   *)
(* or matches on a string (file names, allele names, the truth set's       *)
(* allele list) the separators are single symbols, so that split, join,    *)
(* replace and strip are computed as Python computes them.  A path is a    *)
(* sequence of components, each a string.  A text file is a sequence of    *)
(* lines and a line is the sequence of its tab-separated (genotype file)   *)
(* or comma-separated (CSV) fields.                                        *)
(***************************************************************************)
EXTENDS Integers, Sequences, FiniteSets, TLC

VARIABLES
    fs,        \* the file system: path -> [exists, lines]
    data,      \* the sample's data dictionary, as run's caller holds it
    pc,        \* where run is: "idle", "tool" (do.run in progress), "organize"
    status,    \* how the last run ended: "none", "returned", "raised"
    log,       \* what the current (or last) run did, in order
    entry,     \* what there was when run was called: whether a path matched
               \* hla_base + ".*", whether the report file existed, that file
    dataIn,    \* data as it was passed to the current (or last) run
    rowSrc,    \* whether _organize_calls wrote the report file as it stands,
               \* and the genotype file each of its rows came from
    prevCalls, \* data["hla"]["calls"] as the run before this one returned it
    toolDone,  \* whether the external tool has run to completion before
    allele,    \* the allele name given to _hla_protein
    applied    \* the results of applying _hla_protein to allele, then to its result

vars == <<fs, data, pc, status, log, entry, dataIn, rowSrc, prevCalls, toolDone, allele, applied>>

----------------------------------------------------------------------------
(* Bounds of the model *)

\* the most lines a genotype file holds
MaxRecs == 2

\* the longest allele name the pure-function specification draws
MaxNameLen == 4

----------------------------------------------------------------------------
(* Python's string and collection operations *)

Min(a, b) == IF a < b THEN a ELSE b

Range(s) == {s[i] : i \in 1..Len(s)}

\* s[:n]
Take(s, n) == SubSeq(s, 1, Min(n, Len(s)))

\* s[n:]
Drop(s, n) == SubSeq(s, n + 1, Len(s))

\* s.startswith(p)
StartsWith(s, p) == Len(p) <= Len(s) /\ SubSeq(s, 1, Len(p)) = p

\* s.endswith(p)
EndsWith(s, p) == Len(p) <= Len(s) /\ SubSeq(s, Len(s) - Len(p) + 1, Len(s)) = p

\* the positions at which old occurs in s
Occurrences(s, old) ==
    {i \in 1..(Len(s) - Len(old) + 1) : SubSeq(s, i, i + Len(old) - 1) = old}

\* the least element of a non-empty set of integers
Least(S) == CHOOSE i \in S : \A j \in S : i <= j

RECURSIVE StrReplace(_, _, _)
\* s.replace(old, new), old non-empty: every occurrence, left to right,
\* without overlap
StrReplace(s, old, new) ==
    IF Occurrences(s, old) = {} THEN s
    ELSE LET i == Least(Occurrences(s, old))
         IN  SubSeq(s, 1, i - 1) \o new
                 \o StrReplace(Drop(s, i + Len(old) - 1), old, new)

RECURSIVE StrSplit(_, _)
\* s.split(sep), sep a single symbol
StrSplit(s, sep) ==
    IF Occurrences(s, <<sep>>) = {} THEN <<s>>
    ELSE LET i == Least(Occurrences(s, <<sep>>))
         IN  <<SubSeq(s, 1, i - 1)>> \o StrSplit(Drop(s, i), sep)

RECURSIVE StrJoin(_, _)
\* sep.join(parts)
StrJoin(parts, sep) ==
    IF parts = <<>> THEN <<>>
    ELSE IF Len(parts) = 1 THEN parts[1]
    ELSE parts[1] \o <<sep>> \o StrJoin(Tail(parts), sep)

RECURSIVE StrStrip(_)
\* s.strip()
StrStrip(s) ==
    IF s # <<>> /\ Head(s) = " " THEN StrStrip(Tail(s))
    ELSE IF s # <<>> /\ s[Len(s)] = " " THEN StrStrip(SubSeq(s, 1, Len(s) - 1))
    ELSE s

\* str(n) for the counts the report holds
Digit(n) == <<"0", "1", "2", "3", "4", "5", "6", "7", "8", "9">>[n + 1]

RECURSIVE IntToStr(_)
IntToStr(n) == IF n < 10 THEN <<Digit(n)>> ELSE IntToStr(n \div 10) \o <<Digit(n % 10)>>

RECURSIVE GetIn(_, _, _)
\* toolz.get_in(keys, coll, default)
GetIn(keys, coll, default) ==
    IF keys = <<>> THEN coll
    ELSE IF Head(keys) \in DOMAIN coll
         THEN GetIn(Tail(keys), coll[Head(keys)], default)
         ELSE default

\* d[k] = v on a dictionary
Put(d, k, v) == [x \in DOMAIN d \cup {k} |-> IF x = k THEN v ELSE d[x]]

\* toolz.update_in(d, [k1, k2], lambda x: v)
UpdateIn2(d, k1, k2, v) ==
    Put(d, k1, Put(IF k1 \in DOMAIN d THEN d[k1] ELSE <<>>, k2, v))

\* os.path.dirname, os.path.basename, os.path.join(dir, name)
Dirname(p) == SubSeq(p, 1, Len(p) - 1)
Basename(p) == p[Len(p)]
PathJoin(dir, name) == Append(dir, name)

\* path + suffix
PathPlus(p, suffix) == PathJoin(Dirname(p), Basename(p) \o suffix)

----------------------------------------------------------------------------
(* The inputs the model draws *)

\* the aligned BAM of the sample, data["align_bam"]
AlignBam == << <<"work">>, <<"s", ".", "b", "a", "m">> >>

\* the sample's name
SampleName == <<"S1">>

\* the CSV the hlavalidate configuration value may name
TruthPath == << <<"val">>, <<"truth.csv">> >>

\* the symbols of the allele names given to _hla_protein alone
NameSymbols == {"A", "1", ":"}

\* the records the external tool may write to a genotype file (one with
\* more than four fields); the first two name the same proteins
GtRecords ==
    { << <<"GT">>, <<"A", ":", "1", ":", "1">>, <<"B", ":", "2">>, <<"0">>, <<"5">> >>,
      << <<"GT">>, <<"A", ":", "1", ":", "2">>, <<"B", ":", "2">>, <<"1">> >>,
      << <<"GT">>, <<"B", ":", "2">>, <<"B", ":", "2">>, <<"2">> >> }

\* a line with fewer than four fields
ShortLine == << <<"GT">>, <<"A", ":", "1", ":", "1">> >>

\* the sequences over S of length at most n
SeqsUpTo(S, n) == UNION {[1..k -> S] : k \in 0..n}

\* what a genotype file may hold: at most MaxRecs lines, all of them records
\* or all but the last, which then has too few fields
GtContents ==
    SeqsUpTo(GtRecords, MaxRecs)
        \cup {Append(c, ShortLine) : c \in SeqsUpTo(GtRecords, MaxRecs - 1)}

\* the part of a genotype file's name the glob's star stands for
GtStars == { <<"A">>, <<"B", ".", "g", "t">> }

\* the header line and the rows a truth-set CSV may hold
TruthHeader == << <<"sample">>, <<"locus">>, <<"alleles">> >>

\* the truth set: a row of another sample, an empty row, and the alleles of
\* locus A of the sample
TruthLines ==
    << TruthHeader,
       << <<"S2">>, <<"B">>, <<"A", ":", "1">> >>,
       <<>>,
       << <<"S1">>, <<"A">>, <<" ", "B", ":", "2", ":", "1", ";", " ", "B", ":", "3">> >> >>

\* a file that is not there, and a file holding lines
NoFile == [exists |-> FALSE, lines |-> <<>>]
File(lines) == [exists |-> TRUE, lines |-> lines]

----------------------------------------------------------------------------
(* Helpers of bcbio that bwakit.py calls *)

\* utils.file_exists(fname)
file_exists(fname) == fname \in DOMAIN fs /\ fs[fname].exists

\* dd.get_align_bam(data)
get_align_bam(d) == GetIn(<<"align_bam">>, d, <<>>)

\* dd.get_sample_name(data)
get_sample_name(d) == GetIn(<<"rgnames", "sample">>, d, <<>>)

\* glob.glob(prefix + "*" + suffix): the existing files of prefix's directory
\* whose name starts with prefix's name and goes on to end with suffix
Glob(prefix, suffix) ==
    {p \in DOMAIN fs :
        /\ fs[p].exists
        /\ Dirname(p) = Dirname(prefix)
        /\ Len(Basename(p)) >= Len(Basename(prefix)) + Len(suffix)
        /\ StartsWith(Basename(p), Basename(prefix))
        /\ EndsWith(Basename(p), suffix)}

----------------------------------------------------------------------------
(* bwakit.py *)

\* _hla_protein keeping three fields: name.split(":")[:3]
_hla_protein_ThreeFields(name) == StrJoin(Take(StrSplit(name, ":"), 3), ":")

\* _hla_protein(name)
_hla_protein(name) == StrJoin(Take(StrSplit(name, ":"), 2), ":")

\* run: hla_base
hla_base(d) ==
    PathJoin(PathJoin(Dirname(get_align_bam(d)), <<"hla">>),
             Basename(get_align_bam(d)) \o <<".", "h", "l", "a">>)

\* run: out_file
out_file(d) == PathPlus(hla_base(d), <<".", "t", "o", "p">>)

\* run: the command line handed to do.run
cmd(d) == << <<"run-HLA">>, hla_base(d) >>

RECURSIVE TruthRows(_, _)
\* get_hla_truthset: the loop over the CSV's non-empty rows
TruthRows(rows, out) ==
    IF rows = <<>> THEN out
    ELSE IF Head(rows) = <<>> THEN TruthRows(Tail(rows), out)
    ELSE LET sample == Head(rows)[1]
             locus == Head(rows)[2]
             alleles == Head(rows)[3]
             stripped == [i \in 1..Len(StrSplit(alleles, ";")) |->
                              StrStrip(StrSplit(alleles, ";")[i])]
         IN  TruthRows(Tail(rows), UpdateIn2(out, sample, locus, stripped))

\* get_hla_truthset falling back on the truth set's usual place when the
\* configuration names none
get_hla_truthset_DefaultPath(d) ==
    LET val_csv == GetIn(<<"config", "algorithm", "hlavalidate">>, d, TruthPath)
    IN  IF val_csv # <<>> /\ file_exists(val_csv)
        THEN TruthRows(Tail(fs[val_csv].lines), <<>>)
        ELSE <<>>

\* get_hla_truthset(data)
get_hla_truthset(d) ==
    LET val_csv == GetIn(<<"config", "algorithm", "hlavalidate">>, d, <<>>)
    IN  IF val_csv # <<>> /\ file_exists(val_csv)
        THEN TruthRows(Tail(fs[val_csv].lines), <<>>)
        ELSE <<>>

\* _organize_calls: the header row
ReportHeader ==
    << <<"sample">>, <<"locus">>, <<"mismatches">>, <<"options">>, <<"alleles">>,
       <<"expected">>, <<"validates">> >>

\* _organize_calls: hla_locus of a genotype file
hla_locus(genotype_file, d) ==
    StrReplace(
        StrReplace(Basename(genotype_file),
                   Basename(get_align_bam(d)) \o <<".", "h", "l", "a", ".", "H", "L", "A", "-">>,
                   <<>>),
        <<".", "g", "t">>, <<>>)

\* _organize_calls: a line the unpacking of line.split("\t")[:4] accepts
Unpacks(line) == Len(Take(line, 4)) = 4

\* total_options over the full allele names, _hla_protein left out
total_options_FullNames(lines) ==
    {<<lines[i][2], lines[i][3]>> : i \in 1..Len(lines)}

\* _organize_calls: total_options of a genotype file
total_options(lines) ==
    {<<_hla_protein(lines[i][2]), _hla_protein(lines[i][3])>> : i \in 1..Len(lines)}

\* valstatus measuring the intersection against the truth alleles
valstatus_AgainstTruth(truth_alleles, call_alleles) ==
    IF truth_alleles # <<>>
    THEN LET t_cmp == {_hla_protein(x) : x \in Range(truth_alleles)}
             c_cmp == {_hla_protein(x) : x \in Range(call_alleles)}
         IN  IF Cardinality(t_cmp \cap c_cmp) = Cardinality(t_cmp)
             THEN <<"yes">> ELSE <<"no">>
    ELSE <<>>

\* _organize_calls: valstatus
valstatus(truth_alleles, call_alleles) ==
    IF truth_alleles # <<>>
    THEN LET t_cmp == {_hla_protein(x) : x \in Range(truth_alleles)}
             c_cmp == {_hla_protein(x) : x \in Range(call_alleles)}
         IN  IF Cardinality(t_cmp \cap c_cmp) = Cardinality(c_cmp)
             THEN <<"yes">> ELSE <<"no">>
    ELSE <<>>

\* _organize_calls: the row written for a genotype file with lines
ReportRow(genotype_file, lines, hla_truth, d) ==
    LET sample == get_sample_name(d)
        locus == hla_locus(genotype_file, d)
        call_alleles == <<lines[1][2], lines[1][3]>>
        mismatches == lines[1][4]
        truth_alleles == GetIn(<<sample, locus>>, hla_truth, <<>>)
    IN  << sample, locus, mismatches, IntToStr(Cardinality(total_options(lines))),
           StrJoin(call_alleles, ";"), StrJoin(truth_alleles, ";"),
           valstatus(truth_alleles, call_alleles) >>

\* _organize_calls: the genotype files whose rows the loop writes
WritesRow(genotype_file) == Cardinality(total_options(fs[genotype_file].lines)) > 0

RECURSIVE ReportRows(_, _, _)
\* _organize_calls: the rows written for the genotype files in glob's order
ReportRows(files, hla_truth, d) ==
    IF files = <<>> THEN <<>>
    ELSE (IF WritesRow(Head(files))
          THEN <<ReportRow(Head(files), fs[Head(files)].lines, hla_truth, d)>>
          ELSE <<>>)
         \o ReportRows(Tail(files), hla_truth, d)

\* the genotype files among files, in order, that get a row
RECURSIVE RowFiles(_)
RowFiles(files) ==
    IF files = <<>> THEN <<>>
    ELSE (IF WritesRow(Head(files)) THEN <<Head(files)>> ELSE <<>>)
         \o RowFiles(Tail(files))

\* _organize_calls: the genotype files it reads
GenotypeFiles(d) == Glob(PathPlus(hla_base(d), <<".", "H", "L", "A", "-">>), <<".", "g", "t">>)

\* _organize_calls raises ValueError on a line that does not unpack
OrganizeRaises(d) ==
    \E f \in GenotypeFiles(d) : \E i \in 1..Len(fs[f].lines) : ~Unpacks(fs[f].lines[i])

\* the orders glob may list a set of files in
Orders(S) == {o \in [1..Cardinality(S) -> S] : Range(o) = S}

----------------------------------------------------------------------------
(* The files of the model *)

\* the data dictionary of the sample, with the algorithm configuration alg
SampleData(alg) ==
    [align_bam |-> AlignBam, rgnames |-> [sample |-> SampleName],
     config |-> [algorithm |-> alg]]

HlaBase == hla_base(SampleData(<<>>))
TopPath == out_file(SampleData(<<>>))

\* an input of the external tool: matches hla_base + ".*" and nothing else
FqPath == PathPlus(HlaBase, <<".", "H", "L", "A", "-", "A", ".", "f", "q">>)

\* the genotype files the external tool may write
GtPath(star) == PathPlus(HlaBase, <<".", "H", "L", "A", "-">> \o star \o <<".", "g", "t">>)
GtPaths == {GtPath(star) : star \in GtStars}

Paths == {TopPath, FqPath, TruthPath} \cup GtPaths

\* the summary the external tool itself may leave at hla_base + ".top"
ToolTop == << << <<"s">>, <<"A", ":", "1", ":", "1">>, <<"B", ":", "2">>, <<"0">> >> >>

\* p is a path hla_base + "." + anything
MatchesHlaBase(p) ==
    /\ Dirname(p) = Dirname(HlaBase)
    /\ StartsWith(Basename(p), Basename(HlaBase) \o <<".">>)

\* an event of a run
Event(ev, arg) == [ev |-> ev, arg |-> arg]

\* the report file is not one _organize_calls wrote
NoReport == [written |-> FALSE, files |-> <<>>]

----------------------------------------------------------------------------
(* run *)

\* the test on glob's result with >= for >
HasHlaFiles_OrNone(d) == Cardinality(Glob(PathPlus(hla_base(d), <<".">>), <<>>)) >= 0

\* the test on the report file inverted, and left out
NeedsCalling_Inverted(d) == file_exists(out_file(d))
NeedsCalling_Always(d) == TRUE

\* run: len(glob.glob(hla_base + ".*")) > 0
HasHlaFiles(d) == Cardinality(Glob(PathPlus(hla_base(d), <<".">>), <<>>)) > 0

\* run: not utils.file_exists(out_file)
NeedsCalling(d) == ~file_exists(out_file(d))

\* run: data["hla"] = {"calls": out_file}
SetCalls(d, out) == Put(d, "hla", [calls |-> out])

\* the calls a returned data dictionary holds, <<>> when it holds none
CallsOf(d) == GetIn(<<"hla", "calls">>, d, <<>>)

\* run is called: everything up to do.run, or up to the return when the tool
\* is not needed
RunStart ==
    /\ pc = "idle"
    /\ dataIn' = data
    /\ entry' = [matched |-> \E p \in Paths : fs[p].exists /\ MatchesHlaBase(p),
                 top |-> fs[TopPath].exists,
                 topFile |-> fs[TopPath]]
    /\ prevCalls' = IF status = "returned" THEN CallsOf(data) ELSE <<>>
    /\ IF HasHlaFiles(data)
       THEN IF NeedsCalling(data)
            THEN /\ pc' = "tool"
                 /\ log' = <<Event("invoke", cmd(data)[2])>>
                 /\ UNCHANGED <<data, status>>
            ELSE /\ pc' = "idle"
                 /\ status' = "returned"
                 /\ log' = <<>>
                 /\ data' = SetCalls(data, out_file(data))
       ELSE /\ pc' = "idle"
            /\ status' = "returned"
            /\ log' = <<>>
            /\ UNCHANGED data
    /\ UNCHANGED <<fs, rowSrc, toolDone, allele, applied>>

\* the file system after the external tool wrote the genotype files gt and,
\* with top, its own summary
AfterTool(gt, top) ==
    [p \in Paths |->
        IF p \in GtPaths THEN gt[p]
        ELSE IF p = TopPath /\ top THEN File(ToolTop)
        ELSE fs[p]]

\* what the external tool may write to the genotype files: its output is a
\* function of its input files, which no run changes, so that once it has
\* run to completion it writes the same again
ToolOutputs ==
    IF toolDone THEN {[p \in GtPaths |-> fs[p]]}
    ELSE [GtPaths -> {NoFile} \cup {File(c) : c \in GtContents}]

\* do.run returns: the external tool has exited with status 0
ToolSucceeds ==
    /\ pc = "tool"
    /\ \E gt \in ToolOutputs, top \in BOOLEAN :
          /\ fs' = AfterTool(gt, top)
          /\ rowSrc' = IF top THEN NoReport ELSE rowSrc
    /\ pc' = "organize"
    /\ toolDone' = TRUE
    /\ log' = Append(log, Event("complete", cmd(data)[2]))
    /\ UNCHANGED <<data, status, entry, dataIn, prevCalls, allele, applied>>

\* do.run raises: the external tool has exited with another status; the
\* genotype files it may have left are written again by the run that succeeds
ToolFails ==
    /\ pc = "tool"
    /\ \E top \in BOOLEAN :
          /\ fs' = AfterTool([p \in GtPaths |-> fs[p]], top)
          /\ rowSrc' = IF top THEN NoReport ELSE rowSrc
    /\ pc' = "idle"
    /\ status' = "raised"
    /\ log' = Append(log, Event("failed", cmd(data)[2]))
    /\ UNCHANGED <<data, entry, dataIn, prevCalls, toolDone, allele, applied>>

\* _organize_calls writes the report and run returns
OrganizeWrites ==
    /\ pc = "organize"
    /\ ~OrganizeRaises(data)
    /\ \E files \in Orders(GenotypeFiles(data)) :
          /\ fs' = [fs EXCEPT ![out_file(data)] =
                        File(<<ReportHeader>> \o ReportRows(files, get_hla_truthset(data), data))]
          /\ rowSrc' = [written |-> TRUE, files |-> RowFiles(files)]
    /\ data' = SetCalls(data, out_file(data))
    /\ log' = Append(log, Event("write", out_file(data)))
    /\ pc' = "idle"
    /\ status' = "returned"
    /\ UNCHANGED <<entry, dataIn, prevCalls, toolDone, allele, applied>>

\* _organize_calls raises on a line with too few fields: file_transaction
\* drops what was written and run raises
OrganizeFails ==
    /\ pc = "organize"
    /\ OrganizeRaises(data)
    /\ log' = Append(log, Event("raise", out_file(data)))
    /\ pc' = "idle"
    /\ status' = "raised"
    /\ UNCHANGED <<fs, data, entry, dataIn, rowSrc, prevCalls, toolDone, allele, applied>>

Init ==
    /\ \E top \in {NoFile, File(<<ReportHeader>>)}, fq \in {NoFile, File(<<>>)},
          truth \in {NoFile, File(TruthLines)} :
          fs = [p \in Paths |->
                   IF p = TopPath THEN top
                   ELSE IF p = FqPath THEN fq
                   ELSE IF p = TruthPath THEN truth
                   ELSE NoFile]
    /\ data \in {SampleData([aligner |-> <<"bwa">>]),
                 SampleData([aligner |-> <<"bwa">>, hlavalidate |-> TruthPath])}
    /\ pc = "idle"
    /\ status = "none"
    /\ log = <<>>
    /\ entry = [matched |-> FALSE, top |-> FALSE, topFile |-> NoFile]
    /\ dataIn = data
    /\ rowSrc = NoReport
    /\ prevCalls = <<>>
    /\ toolDone = FALSE
    /\ allele = <<>>
    /\ applied = <<>>

Next == RunStart \/ ToolSucceeds \/ ToolFails \/ OrganizeWrites \/ OrganizeFails

Spec == Init /\ [][Next]_vars

----------------------------------------------------------------------------
(* _hla_protein on its own *)

InitProtein ==
    /\ allele \in SeqsUpTo(NameSymbols, MaxNameLen)
    /\ applied = <<>>
    /\ fs = [p \in Paths |-> NoFile]
    /\ data = SampleData(<<>>)
    /\ pc = "idle"
    /\ status = "none"
    /\ log = <<>>
    /\ entry = [matched |-> FALSE, top |-> FALSE, topFile |-> NoFile]
    /\ dataIn = data
    /\ rowSrc = NoReport
    /\ prevCalls = <<>>
    /\ toolDone = FALSE

\* _hla_protein is applied to allele, and then to what it returned
ApplyProtein ==
    /\ Len(applied) < 2
    /\ applied' = Append(applied,
                         _hla_protein(IF applied = <<>> THEN allele ELSE applied[Len(applied)]))
    /\ UNCHANGED <<fs, data, pc, status, log, entry, dataIn, rowSrc, prevCalls, toolDone, allele>>

NextProtein == ApplyProtein

SpecProtein == InitProtein /\ [][NextProtein]_vars

----------------------------------------------------------------------------
(* What the properties speak of *)

\* the path of the report, hla_base + ".top", written out
ReportPath ==
    << <<"work">>, <<"hla">>,
       <<"s", ".", "b", "a", "m", ".", "h", "l", "a", ".", "t", "o", "p">> >>

\* the positions of the events ev in the run's log
EventsAt(ev) == {i \in 1..Len(log) : log[i].ev = ev}

\* the rows of the report under the header
Rows == Tail(fs[ReportPath].lines)

\* the positions of the colons of an allele name
Colons(n) == {i \in 1..Len(n) : n[i] = ":"}

\* the protein-level name: the name up to its second colon, all of it when
\* it has fewer than two
ProteinLevel(n) ==
    IF Cardinality(Colons(n)) < 2 THEN n
    ELSE LET second == CHOOSE i \in Colons(n) :
                           Cardinality({j \in Colons(n) : j < i}) = 1
         IN  SubSeq(n, 1, second - 1)

\* the number a string of digits writes
DigitValue(c) == CHOOSE v \in 0..9 : <<"0", "1", "2", "3", "4", "5", "6", "7", "8", "9">>[v + 1] = c

RECURSIVE Number(_)
Number(str) ==
    IF str = <<>> THEN 0
    ELSE 10 * Number(SubSeq(str, 1, Len(str) - 1)) + DigitValue(str[Len(str)])

\* the existing files whose path is hla_base + ".HLA-" + anything + ".gt"
MatchingGenotypeFiles ==
    {p \in Paths :
        /\ fs[p].exists
        /\ Len(p) = 3 /\ p[1] = <<"work">> /\ p[2] = <<"hla">>
        /\ \E n \in 0..(Len(p[3]) - 17) :
              p[3] = <<"s", ".", "b", "a", "m", ".", "h", "l", "a", ".", "H", "L", "A", "-">>
                         \o SubSeq(p[3], 15, 14 + n) \o <<".", "g", "t">>}

\* the truth set's alleles for the sample and locus of a row
TruthOfRow(row) == GetIn(<<row[1], row[2]>>, get_hla_truthset(data), <<>>)

----------------------------------------------------------------------------
(* Properties *)

\* C1: a run that finds a path matching hla_base + ".*" and no report file
\* invokes the external tool exactly once, on hla_base; the report is
\* written only after that invocation has completed; and the data the run
\* returns has data["hla"]["calls"] = hla_base + ".top".
C1_RunCallsToolOnceThenReports ==
    /\ \A w \in EventsAt("write") :
          \E c \in EventsAt("complete") : c < w /\ \E i \in EventsAt("invoke") : i < c
    /\ (entry.matched /\ ~entry.top) =>
          /\ Cardinality(EventsAt("invoke")) = 1
          /\ \A i \in EventsAt("invoke") :
                log[i].arg = << <<"work">>, <<"hla">>, <<"s", ".", "b", "a", "m", ".", "h", "l", "a">> >>
          /\ (pc = "idle" /\ status = "returned") =>
                /\ Cardinality(EventsAt("write")) = 1
                /\ "hla" \in DOMAIN data
                /\ data["hla"] = [calls |-> ReportPath]

C1_Witness ==
    /\ entry.matched /\ ~entry.top
    /\ pc = "idle" /\ status = "returned"
    /\ EventsAt("write") # {}

\* C2: in every row of the report the validates column is empty when the
\* truth set has no alleles for the row's sample and locus; otherwise it is
\* "yes" exactly when the protein-level name of each of the two called
\* alleles of the file's first record is the protein-level name of a truth
\* allele, and "no" in every other case.
C2_ValidatesColumn ==
    rowSrc.written =>
        \A i \in 1..Len(Rows) :
            LET first == fs[rowSrc.files[i]].lines[1]
                truth == TruthOfRow(Rows[i])
                agree == \A k \in {2, 3} :
                             \E t \in 1..Len(truth) :
                                 ProteinLevel(first[k]) = ProteinLevel(truth[t])
            IN  Rows[i][7] = IF truth = <<>> THEN <<>>
                             ELSE IF agree THEN <<"yes">> ELSE <<"no">>

C2_Witness ==
    /\ rowSrc.written
    /\ \E i \in 1..Len(Rows) : Rows[i][7] = <<"yes">>
    /\ \E i \in 1..Len(Rows) : Rows[i][7] = <<>>

\* C3: every genotype file with a record has a row in the report; the row's
\* alleles column is the two allele names of the file's first record joined
\* by ";", its mismatches column is that record's fourth field, and its
\* options column is the number of distinct pairs of protein-level names
\* over the file's records, which is at least 1 and at most the number of
\* records.
C3_RowReportsBestCall ==
    rowSrc.written =>
        /\ \A f \in MatchingGenotypeFiles :
              Len(fs[f].lines) >= 1 => \E i \in 1..Len(rowSrc.files) : rowSrc.files[i] = f
        /\ Len(rowSrc.files) = Len(Rows)
        /\ \A i \in 1..Len(Rows) :
              LET recs == fs[rowSrc.files[i]].lines
                  pairs == {<<ProteinLevel(recs[k][2]), ProteinLevel(recs[k][3])>> :
                                k \in 1..Len(recs)}
              IN  /\ Rows[i][5] = recs[1][2] \o <<";">> \o recs[1][3]
                  /\ Rows[i][3] = recs[1][4]
                  /\ Number(Rows[i][4]) = Cardinality(pairs)
                  /\ Number(Rows[i][4]) >= 1
                  /\ Number(Rows[i][4]) <= Len(recs)

C3_Witness ==
    /\ rowSrc.written
    /\ \E i \in 1..Len(Rows) :
          /\ Len(fs[rowSrc.files[i]].lines) = 2
          /\ fs[rowSrc.files[i]].lines[1] # fs[rowSrc.files[i]].lines[2]
          /\ Rows[i][4] = <<"1">>

\* the name of a genotype file without the "<bam name>.hla.HLA-" before it
\* and the ".gt" after it
WithoutPrefixAndSuffix(p) ==
    SubSeq(Basename(p),
           Len(<<"s", ".", "b", "a", "m", ".", "h", "l", "a", ".", "H", "L", "A", "-">>) + 1,
           Len(Basename(p)) - Len(<<".", "g", "t">>))

\* the report starts with the header row, followed by exactly one row for
\* each matching genotype file that is not empty and none for an empty one
C4_HeaderAndOneRowPerFile ==
    rowSrc.written =>
        /\ fs[ReportPath].exists
        /\ Len(fs[ReportPath].lines) >= 1
        /\ fs[ReportPath].lines[1] =
              << <<"sample">>, <<"locus">>, <<"mismatches">>, <<"options">>, <<"alleles">>,
                 <<"expected">>, <<"validates">> >>
        /\ Len(rowSrc.files) = Len(Rows)
        /\ \A i, j \in 1..Len(rowSrc.files) : rowSrc.files[i] = rowSrc.files[j] => i = j
        /\ Range(rowSrc.files) = {f \in MatchingGenotypeFiles : fs[f].lines # <<>>}

\* C4: the report starts with the header row, followed by exactly one row
\* for each file matching hla_base + ".HLA-*.gt" that has a record and none
\* for an empty one; each row's locus is the file's name without the
\* "<bam name>.hla.HLA-" prefix and the ".gt" suffix.
C4_ReportRowsAndLocus ==
    /\ C4_HeaderAndOneRowPerFile
    /\ rowSrc.written =>
          \A i \in 1..Len(Rows) : Rows[i][2] = WithoutPrefixAndSuffix(rowSrc.files[i])

\* C5: get_hla_truthset returns an empty mapping whenever the hlavalidate
\* configuration value is absent or names a file that does not exist, and
\* every row of the report then has an empty expected column and an empty
\* validates column.
C5_NoTruthSet ==
    LET alg == data["config"]["algorithm"]
    IN  ("hlavalidate" \notin DOMAIN alg \/ ~fs[alg["hlavalidate"]].exists) =>
            /\ DOMAIN get_hla_truthset(data) = {}
            /\ rowSrc.written =>
                  \A i \in 1..Len(Rows) : Rows[i][6] = <<>> /\ Rows[i][7] = <<>>

C5_Witness ==
    /\ "hlavalidate" \notin DOMAIN data["config"]["algorithm"]
    /\ fs[TruthPath].exists
    /\ rowSrc.written
    /\ Len(Rows) = 2

\* C6: _hla_protein returns the first two colon-separated fields of the
\* name joined by ":", returns a name of at most two fields unchanged, and
\* applied to its own result returns that result.
C6_ProteinIdempotent ==
    /\ Len(applied) >= 1 =>
          /\ applied[1] = ProteinLevel(allele)
          /\ Cardinality(Colons(allele)) + 1 <= 2 => applied[1] = allele
    /\ Len(applied) = 2 => applied[2] = applied[1]

C6_Witness ==
    /\ Len(applied) = 2
    /\ applied[1] # allele
    /\ Cardinality(Colons(applied[1])) = 1

\* C7: a run that finds the report file invokes no tool and leaves the
\* report as it is, and returns data["hla"]["calls"] = hla_base + ".top";
\* so the run after a run that returned calls invokes the tool no more and
\* returns the same calls.
C7_ExistingReportIsKept ==
    /\ entry.top =>
          /\ EventsAt("invoke") = {}
          /\ EventsAt("write") = {}
          /\ fs[ReportPath] = entry.topFile
          /\ pc = "idle" /\ status = "returned"
          /\ "hla" \in DOMAIN data
          /\ data["hla"] = [calls |-> ReportPath]
    /\ prevCalls # <<>> =>
          /\ EventsAt("invoke") = {}
          /\ pc = "idle" /\ status = "returned"
          /\ data["hla"]["calls"] = prevCalls

C7_Witness ==
    /\ prevCalls # <<>>
    /\ rowSrc.written
    /\ entry.top
    /\ status = "returned"

\* C8: a run that finds no path matching hla_base + ".*" invokes no tool,
\* writes no report and returns the data it was given, with no "hla" entry
\* added.
C8_NothingToType ==
    (status # "none" /\ ~entry.matched) =>
        /\ log = <<>>
        /\ pc = "idle" /\ status = "returned"
        /\ ~fs[ReportPath].exists
        /\ data = dataIn
        /\ DOMAIN data = DOMAIN dataIn
        /\ "hla" \notin DOMAIN data

C8_Witness ==
    /\ status = "returned"
    /\ ~entry.matched
    /\ fs[TruthPath].exists

====
